---- MODULE Spec2Model ----
(***************************************************************************)
(* A model of exif_count.py: the worker pool that counts EXIF field values *)
(* into a shared table (make_statistic, get_statistic_dict), the command   *)
(* line driver (cli) and the per-field sort of plot_statistic_dict.        *)
(*                                                                         *)
(* A Python str is modelled as a sequence of characters; a character is a  *)
(* one-letter TLA+ string, and "NUL" stands for the character \x00.        *)
(***************************************************************************)
EXTENDS Integers, Sequences, FiniteSets, TLC

\* ------------------------------------------------------------------ bounds
NumFiles == 2      \* the longest file list
NumWorkers == 2    \* multiprocessing.cpu_count()
NumVals == 2       \* how many different photos' values the file list draws from
MaxItems == 3      \* the most values of a field's table handed to plot_statistic_dict alone
MaxCount == 2      \* the largest count in such a table
MaxDateLen == 5    \* the longest raw DateTimeOriginal drawn letter by letter
MaxNameLen == 3    \* the longest raw value of the other fields drawn letter by letter

\* --------------------------------------------------------------- constants
STATISTIC_KEYS ==
    << "DateTimeOriginal", "Model", "LensModel", "FNumber",
       "ExposureTime", "ISOSpeedRatings", "FocalLength" >>

NKeys == Len(STATISTIC_KEYS)

KeySet == { STATISTIC_KEYS[i] : i \in 1..NKeys }

\* ------------------------------------------------------------------ strings
\* The characters the model uses, in code point order.
Alphabet ==
    << "NUL", " ", "-", ".", "/", "0", "1", "2", "3", "4", "5", "6", "7", "8",
       "9", ":", "A", "B", "L" >>

Ord(c) == CHOOSE i \in 1..Len(Alphabet) : Alphabet[i] = c

Digits == { "0", "1", "2", "3", "4", "5", "6", "7", "8", "9" }

DigitVal(c) == Ord(c) - Ord("0")

DigitChar(n) == Alphabet[Ord("0") + n]

\* str.__lt__: lexicographic order by code point.
RECURSIVE StrLess(_, _)
StrLess(a, b) ==
    IF b = << >> THEN FALSE
    ELSE IF a = << >> THEN TRUE
    ELSE IF Head(a) = Head(b) THEN StrLess(Tail(a), Tail(b))
    ELSE Ord(Head(a)) < Ord(Head(b))

\* s.split(sep)[0]: the text before the first sep, or all of s.
RECURSIVE SplitFirst(_, _)
SplitFirst(s, sep) ==
    IF s = << >> \/ Head(s) = sep THEN << >>
    ELSE << Head(s) >> \o SplitFirst(Tail(s), sep)

\* A replace that ignores count: every old becomes new.
RECURSIVE ReplaceAll(_, _, _, _)
ReplaceAll(s, old, new, count) ==
    IF s = << >> THEN s
    ELSE IF Head(s) = old
         THEN << new >> \o ReplaceAll(Tail(s), old, new, count)
         ELSE << Head(s) >> \o ReplaceAll(Tail(s), old, new, count)

\* s.replace(old, new, count) for one-character old and new.
RECURSIVE Replace(_, _, _, _)
Replace(s, old, new, count) ==
    IF s = << >> \/ count = 0 THEN s
    ELSE IF Head(s) = old
         THEN << new >> \o Replace(Tail(s), old, new, count - 1)
         ELSE << Head(s) >> \o Replace(Tail(s), old, new, count)

RECURSIVE LStrip(_, _)
LStrip(s, c) ==
    IF s # << >> /\ Head(s) = c THEN LStrip(Tail(s), c) ELSE s

RECURSIVE RStrip(_, _)
RStrip(s, c) ==
    IF s # << >> /\ s[Len(s)] = c THEN RStrip(SubSeq(s, 1, Len(s) - 1), c) ELSE s

\* rstrip in place of strip: only the trailing c go.
StripRightOnly(s, c) == RStrip(s, c)

\* s.strip(c): c removed from both ends, never from the middle.
Strip(s, c) == RStrip(LStrip(s, c), c)

IsDigits(s) == s # << >> /\ \A i \in 1..Len(s) : s[i] \in Digits

RECURSIVE DigitsVal(_)
DigitsVal(s) ==
    IF s = << >> THEN 0
    ELSE 10 * DigitsVal(SubSeq(s, 1, Len(s) - 1)) + DigitVal(s[Len(s)])

RECURSIVE Pow10(_)
Pow10(n) == IF n = 0 THEN 1 ELSE 10 * Pow10(n - 1)

\* str(n) for n >= 0.
RECURSIVE IntStr(_)
IntStr(n) ==
    IF n < 10 THEN << DigitChar(n) >>
    ELSE IntStr(n \div 10) \o << DigitChar(n % 10) >>

\* The position of the first c in s, 0 when there is none.
RECURSIVE Find(_, _)
Find(s, c) ==
    IF s = << >> THEN 0
    ELSE IF Head(s) = c THEN 1
    ELSE IF Find(Tail(s), c) = 0 THEN 0 ELSE 1 + Find(Tail(s), c)

Before(s, c) == SubSeq(s, 1, Find(s, c) - 1)

After(s, c) == SubSeq(s, Find(s, c) + 1, Len(s))

\* ------------------------------------------------------- parsing sort keys
\* A parsed sort key is a rational num/den (den > 0), or a failure (the
\* Python call raises).  The parsers cover the plain decimal forms, which
\* are the forms of every string the model builds.
Rat(n, d) == [ok |-> TRUE, num |-> n, den |-> d]

Raises == [ok |-> FALSE, num |-> 0, den |-> 1]

\* int(s)
ParseInt(s) == IF IsDigits(s) THEN Rat(DigitsVal(s), 1) ELSE Raises

\* float(s): "digits" or "digits.digits", kept as an exact decimal.
ParseFloat(s) ==
    IF Find(s, ".") = 0 THEN ParseInt(s)
    ELSE IF IsDigits(Before(s, ".")) /\ IsDigits(After(s, "."))
         THEN Rat(DigitsVal(Before(s, ".") \o After(s, ".")),
                  Pow10(Len(After(s, "."))))
         ELSE Raises

\* Fraction(s): "num/den" (a zero den raises ZeroDivisionError), else a decimal.
ParseFraction(s) ==
    IF Find(s, "/") = 0 THEN ParseFloat(s)
    ELSE IF IsDigits(Before(s, "/")) /\ IsDigits(After(s, "/"))
            /\ DigitsVal(After(s, "/")) # 0
         THEN Rat(DigitsVal(Before(s, "/")), DigitsVal(After(s, "/")))
         ELSE Raises

IsLeap(y) == (y % 4 = 0 /\ y % 100 # 0) \/ y % 400 = 0

DaysIn(y, m) ==
    IF m = 2 THEN (IF IsLeap(y) THEN 29 ELSE 28)
    ELSE IF m \in {4, 6, 9, 11} THEN 30 ELSE 31

\* datetime.date.fromisoformat(s): "YYYY-MM-DD" naming a day of the calendar;
\* the key orders as (year, month, day).
ParseDate(s) ==
    IF /\ Len(s) = 10
       /\ s[5] = "-" /\ s[8] = "-"
       /\ IsDigits(SubSeq(s, 1, 4)) /\ IsDigits(SubSeq(s, 6, 7))
       /\ IsDigits(SubSeq(s, 9, 10))
    THEN LET y == DigitsVal(SubSeq(s, 1, 4))
             m == DigitsVal(SubSeq(s, 6, 7))
             d == DigitsVal(SubSeq(s, 9, 10))
         IN  IF y >= 1 /\ m \in 1..12 /\ d \in 1..DaysIn(y, m)
             THEN Rat(y * 10000 + m * 100 + d, 1)
             ELSE Raises
    ELSE Raises

RatLess(x, y) == x.num * y.den < y.num * x.den

\* The fields whose sort_lambda parses item[0]; the others sort as str.
ParsedKeys == { "ExposureTime", "FNumber", "FocalLength", "ISOSpeedRatings",
                "DateTimeOriginal" }

\* sort_lambda(item) for field k, applied to item[0] = s.
SortKey(k, s) ==
    IF k = "ExposureTime" THEN ParseFraction(s)
    ELSE IF k = "FNumber" \/ k = "FocalLength" THEN ParseFloat(s)
    ELSE IF k = "ISOSpeedRatings" THEN ParseInt(s)
    ELSE IF k = "DateTimeOriginal" THEN ParseDate(s)
    ELSE Raises

\* Every field ordered as str: the sort without its per-field branches.
SortLessAsStr(k, a, b) == StrLess(a, b)

\* sort_lambda(x) < sort_lambda(y) for field k.
SortLess(k, a, b) ==
    IF k \in ParsedKeys THEN RatLess(SortKey(k, a), SortKey(k, b))
    ELSE StrLess(a, b)

\* sort_lambda raises on some item of the field's table.
SortRaises(k, items) ==
    k \in ParsedKeys /\ \E i \in 1..Len(items) : ~SortKey(k, items[i].val).ok

\* sorted() is stable: x goes before the first element greater than it.
RECURSIVE InsertSorted(_, _, _)
InsertSorted(k, x, s) ==
    IF s = << >> THEN << x >>
    ELSE IF SortLess(k, x.val, Head(s).val) THEN << x >> \o s
    ELSE << Head(s) >> \o InsertSorted(k, x, Tail(s))

RECURSIVE Sorted(_, _)
Sorted(k, items) ==
    IF items = << >> THEN << >>
    ELSE InsertSorted(k, items[Len(items)],
                      Sorted(k, SubSeq(items, 1, Len(items) - 1)))

RECURSIVE Gcd(_, _)
Gcd(a, b) == IF b = 0 THEN a ELSE Gcd(b, a % b)

\* f"{Fraction(v).limit_denominator()}": the fraction in lowest terms, which
\* limit_denominator() returns as it is while den is at most a million.
FractionLabel(s) ==
    LET r == ParseFraction(s)
        g == Gcd(r.num, r.den)
        n == r.num \div g
        d == r.den \div g
    IN  IF d = 1 THEN IntStr(n) ELSE IntStr(n) \o << "/" >> \o IntStr(d)

\* The chart of one field: plot_labels and plot_values of the sorted items.
Chart(k, items) ==
    LET s == Sorted(k, items)
    IN  [ field  |-> k,
          labels |-> [ i \in 1..Len(s) |->
                         IF k = "ExposureTime" THEN FractionLabel(s[i].val)
                         ELSE s[i].val ],
          values |-> [ i \in 1..Len(s) |-> s[i].cnt ] ]

\* The field's loop body raises: zip(*[]) cannot be unpacked into two names,
\* or a sort key does not parse.
PlotRaises(k, items) == items = << >> \/ SortRaises(k, items)

\* -------------------------------------------------------------- the files
\* str(value) of each tracked tag of three sample photos.  Photos 1 and 2
\* were taken on the same day with the same lens (one lens name carries the
\* trailing NUL); their numeric fields order differently as numbers and as
\* strings.
PhotoValues ==
    << [ DateTimeOriginal |-> << "2","0","2","3",":","0","5",":","0","1"," ",
                                 "1","2",":","3","0",":","0","0" >>,
         Model            |-> << "A" >>,
         LensModel        |-> << "L", "NUL" >>,
         FNumber          |-> << "2", ".", "8" >>,
         ExposureTime     |-> << "1", "/", "2" >>,
         ISOSpeedRatings  |-> << "1", "0", "0" >>,
         FocalLength      |-> << "5", "0", ".", "0" >> ],
       [ DateTimeOriginal |-> << "2","0","2","3",":","0","5",":","0","1"," ",
                                 "1","8",":","0","0",":","0","0" >>,
         Model            |-> << "B" >>,
         LensModel        |-> << "L" >>,
         FNumber          |-> << "1", "1" >>,
         ExposureTime     |-> << "1", "/", "3", "0" >>,
         ISOSpeedRatings  |-> << "5", "0" >>,
         FocalLength      |-> << "9", ".", "0" >> ],
       [ DateTimeOriginal |-> << "2","0","2","2",":","1","2",":","3","1"," ",
                                 "0","8",":","0","0",":","0","0" >>,
         Model            |-> << "A", "B" >>,
         LensModel        |-> << "B" >>,
         FNumber          |-> << "4", ".", "0" >>,
         ExposureTime     |-> << "2", "/", "4" >>,
         ISOSpeedRatings  |-> << "2", "0", "0" >>,
         FocalLength      |-> << "9" >> ] >>

RawVal(k, v) == PhotoValues[((v - 1) % Len(PhotoValues)) + 1][k]

\* exif_result restricted to the tracked keys: which are present, and their str.
Photo(v) == [ k \in KeySet |-> [has |-> TRUE, raw |-> RawVal(k, v)] ]

Without(tags, k) == [ tags EXCEPT ![k] = [has |-> FALSE, raw |-> << >>] ]

NoTags == [ k \in KeySet |-> [has |-> FALSE, raw |-> << >>] ]

\* A file: one that Image.open or _getexif raises on ("corrupt"), one whose
\* _getexif() is None ("noexif"), or one with tags ("exif").
FileSpace ==
    { [kind |-> "corrupt", tags |-> NoTags], [kind |-> "noexif", tags |-> NoTags] }
    \cup { [kind |-> "exif", tags |-> t] :
             t \in UNION { { Photo(v),
                             Without(Photo(v), "DateTimeOriginal"),
                             Without(Photo(v), "LensModel") } : v \in 1..NumVals } }

RECURSIVE SeqsUpTo(_, _)
SeqsUpTo(S, n) ==
    IF n = 0 THEN { << >> }
    ELSE SeqsUpTo(S, n - 1)
         \cup { Append(s, x) : s \in { t \in SeqsUpTo(S, n - 1) : Len(t) = n - 1 },
                               x \in S }

\* ------------------------------------------------------------ the table
\* A dict keeps insertion order: a field's table is a sequence of
\* [val, cnt] items with distinct val.
HasKey(items, v) == \E i \in 1..Len(items) : items[i].val = v

GetItem(items, v) ==
    LET i == CHOOSE i \in 1..Len(items) : items[i].val = v IN items[i].cnt

\* A store that is one too high: d[v] = n + 1.
SetItemTwice(items, v, n) ==
    IF \E i \in 1..Len(items) : items[i].val = v
    THEN [ i \in 1..Len(items) |->
             IF items[i].val = v THEN [val |-> v, cnt |-> n + 1] ELSE items[i] ]
    ELSE Append(items, [val |-> v, cnt |-> n + 1])

\* d[v] = n: overwrite in place, or insert at the end.
SetItem(items, v, n) ==
    IF HasKey(items, v)
    THEN [ i \in 1..Len(items) |->
             IF items[i].val = v THEN [val |-> v, cnt |-> n] ELSE items[i] ]
    ELSE Append(items, [val |-> v, cnt |-> n])

Count(items, v) == IF HasKey(items, v) THEN GetItem(items, v) ELSE 0

EmptyTable == [ k \in KeySet |-> << >> ]

\* The value make_statistic counts for key k from its raw str.
Normalize(k, raw) ==
    IF k = "DateTimeOriginal"
    THEN Replace(SplitFirst(raw, " "), ":", "-", 2)
    ELSE Strip(raw, "NUL")

\* ---------------------------------------------------------------- state
VARIABLES
    files,      \* the filtered file list of get_statistic_dict
    mpc,        \* the main process: "run" (in get_statistic_dict), "cli", "plot", "exit"
    submitted,  \* how many files the submission loop has passed to apply_async
    waited,     \* how many tasks the wait loop is done with
    task,       \* per task: "new", "queued", "running", "done", "failed"
    tle,        \* the tasks whose task.get(10) timed out ("TLE" printed)
    wk,         \* per worker: its position in make_statistic and its locals
    lock,       \* the multiprocessing.Lock: 0 when free, else the holder
    shared,     \* shared_dict: per key, the items of its manager.dict
    pbar,       \* how often pbar_update ran
    pool,       \* "open", "closed", "terminated"
    intr,       \* the SIGINT: "none", or the phase of the main process it hit
    ret,        \* what get_statistic_dict did: "none", "table", "abort", "raise"
    dict_v,     \* the table get_statistic_dict returned
    plotIdx,    \* the field plot_statistic_dict is at
    charts,     \* the charts drawn, in order
    outcome,    \* how cli ended: "running", "ok", or the name of the exception
    counted     \* history: per task, the keys whose count its worker has written

vars == << files, mpc, submitted, waited, task, tle, wk, lock, shared, pbar,
           pool, intr, ret, dict_v, plotIdx, charts, outcome, counted >>

mainVars == << mpc, submitted, waited, tle, pool, intr, ret, dict_v >>

cliVars == << plotIdx, charts, outcome >>

Workers == 1..NumWorkers

N == Len(files)

Idle == [pc |-> "idle", f |-> 0, k |-> 0, value |-> << >>, seen |-> FALSE, cur |-> 0]

Init ==
    /\ files \in SeqsUpTo(FileSpace, NumFiles)
    /\ mpc = "run"
    /\ submitted = 0
    /\ waited = 0
    /\ task = [ i \in 1..Len(files) |-> "new" ]
    /\ tle = {}
    /\ wk = [ w \in Workers |-> Idle ]
    /\ lock = 0
    /\ shared = EmptyTable
    /\ pbar = 0
    /\ pool = "open"
    /\ intr = "none"
    /\ ret = "none"
    /\ dict_v = EmptyTable
    /\ plotIdx = 0
    /\ charts = << >>
    /\ outcome = "running"
    /\ counted = [ i \in 1..Len(files) |-> {} ]

\* ------------------------------------------------- make_statistic (workers)
\* The workers are followed while get_statistic_dict runs: once it has
\* returned or raised, the pool is joined or terminated, or the table is
\* no longer read.
WorkerRuns(w) == mpc = "run" /\ pool # "terminated"

\* A task ends: its result is set and, on success, the callback runs.
Finish(w, success) ==
    /\ task' = [task EXCEPT ![wk[w].f] = IF success THEN "done" ELSE "failed"]
    /\ pbar' = IF success THEN pbar + 1 ELSE pbar
    /\ wk' = [wk EXCEPT ![w] = Idle]

\* An idle worker takes the oldest queued task.
Start(w) ==
    /\ WorkerRuns(w)
    /\ wk[w].pc = "idle"
    /\ \E i \in 1..N :
         /\ task[i] = "queued"
         /\ \A j \in 1..(i - 1) : task[j] # "queued"
         /\ task' = [task EXCEPT ![i] = "running"]
         /\ wk' = [wk EXCEPT ![w] = [Idle EXCEPT !.pc = "open", !.f = i]]
    /\ UNCHANGED << files, lock, shared, pbar, counted >>
    /\ UNCHANGED mainVars /\ UNCHANGED cliVars

\* Without the test for None: exif.items() raises on a file without EXIF.
OpenNoNoneTest(w) ==
    /\ WorkerRuns(w)
    /\ wk[w].pc = "open"
    /\ files[wk[w].f].kind # "hang"
    /\ IF files[wk[w].f].kind \in { "corrupt", "noexif" } THEN Finish(w, FALSE)
       ELSE /\ wk' = [wk EXCEPT ![w].pc = "loop", ![w].k = 1]
            /\ UNCHANGED << task, pbar >>
    /\ UNCHANGED << files, lock, shared, counted >>
    /\ UNCHANGED mainVars /\ UNCHANGED cliVars

\* with Image.open(in_path) as img: exif = img._getexif()
\* On a file of kind "hang" the call never returns.
Open(w) ==
    /\ WorkerRuns(w)
    /\ wk[w].pc = "open"
    /\ files[wk[w].f].kind # "hang"
    /\ IF files[wk[w].f].kind = "corrupt" THEN Finish(w, FALSE)
       ELSE IF files[wk[w].f].kind = "noexif" THEN Finish(w, TRUE)
       ELSE /\ wk' = [wk EXCEPT ![w].pc = "loop", ![w].k = 1]
            /\ UNCHANGED << task, pbar >>
    /\ UNCHANGED << files, lock, shared, counted >>
    /\ UNCHANGED mainVars /\ UNCHANGED cliVars

\* continue in place of return: a missing key is skipped, the later ones counted.
LoopSkipsMissing(w) ==
    /\ WorkerRuns(w)
    /\ wk[w].pc = "loop"
    /\ IF wk[w].k > NKeys THEN Finish(w, TRUE)
       ELSE LET key == STATISTIC_KEYS[wk[w].k]
                tag == files[wk[w].f].tags[key]
            IN  IF ~tag.has
                THEN /\ wk' = [wk EXCEPT ![w].k = @ + 1]
                     /\ UNCHANGED << task, pbar >>
                ELSE /\ wk' = [wk EXCEPT ![w].pc = "acquire",
                                         ![w].value = Normalize(key, tag.raw)]
                     /\ UNCHANGED << task, pbar >>
    /\ UNCHANGED << files, lock, shared, counted >>
    /\ UNCHANGED mainVars /\ UNCHANGED cliVars

\* for key in STATISTIC_KEYS: return on a missing key, else compute value.
Loop(w) ==
    /\ WorkerRuns(w)
    /\ wk[w].pc = "loop"
    /\ IF wk[w].k > NKeys THEN Finish(w, TRUE)
       ELSE LET key == STATISTIC_KEYS[wk[w].k]
                tag == files[wk[w].f].tags[key]
            IN  IF ~tag.has THEN Finish(w, TRUE)
                ELSE /\ wk' = [wk EXCEPT ![w].pc = "acquire",
                                         ![w].value = Normalize(key, tag.raw)]
                     /\ UNCHANGED << task, pbar >>
    /\ UNCHANGED << files, lock, shared, counted >>
    /\ UNCHANGED mainVars /\ UNCHANGED cliVars

\* A lock that excludes nobody.
CanAcquireAlways(l) == TRUE

\* lock.acquire() succeeds when the lock is free.
CanAcquire(l) == l = 0

\* with lock:
Acquire(w) ==
    /\ WorkerRuns(w)
    /\ wk[w].pc = "acquire"
    /\ CanAcquire(lock)
    /\ lock' = w
    /\ wk' = [wk EXCEPT ![w].pc = "check"]
    /\ UNCHANGED << files, task, shared, pbar, counted >>
    /\ UNCHANGED mainVars /\ UNCHANGED cliVars

\* if str(value) not in shared_dict[str(key)].keys():
Check(w) ==
    /\ WorkerRuns(w)
    /\ wk[w].pc = "check"
    /\ LET here == HasKey(shared[STATISTIC_KEYS[wk[w].k]], wk[w].value)
       IN  wk' = [wk EXCEPT ![w].seen = here,
                            ![w].pc = IF here THEN "read" ELSE "write"]
    /\ UNCHANGED << files, task, lock, shared, pbar, counted >>
    /\ UNCHANGED mainVars /\ UNCHANGED cliVars

\* the read of shared_dict[key][value] += 1
Read(w) ==
    /\ WorkerRuns(w)
    /\ wk[w].pc = "read"
    /\ wk' = [wk EXCEPT ![w].cur = GetItem(shared[STATISTIC_KEYS[wk[w].k]], wk[w].value),
                        ![w].pc = "write"]
    /\ UNCHANGED << files, task, lock, shared, pbar, counted >>
    /\ UNCHANGED mainVars /\ UNCHANGED cliVars

\* shared_dict[key][value] = 1, or the write of += 1
Write(w) ==
    /\ WorkerRuns(w)
    /\ wk[w].pc = "write"
    /\ LET key == STATISTIC_KEYS[wk[w].k]
       IN  /\ shared' = [shared EXCEPT ![key] =
                           SetItem(@, wk[w].value,
                                   IF wk[w].seen THEN wk[w].cur + 1 ELSE 1)]
           /\ counted' = [counted EXCEPT ![wk[w].f] = @ \cup {key}]
    /\ wk' = [wk EXCEPT ![w].pc = "release"]
    /\ UNCHANGED << files, task, lock, pbar >>
    /\ UNCHANGED mainVars /\ UNCHANGED cliVars

\* An acquire() without its release(): the lock stays taken.
ReleaseKeepsLock(w) ==
    /\ WorkerRuns(w)
    /\ wk[w].pc = "release"
    /\ wk' = [wk EXCEPT ![w].pc = "loop", ![w].k = @ + 1,
                        ![w].value = << >>, ![w].seen = FALSE, ![w].cur = 0]
    /\ UNCHANGED << files, task, lock, shared, pbar, counted >>
    /\ UNCHANGED mainVars /\ UNCHANGED cliVars

\* The end of the with block, and on to the next key.
Release(w) ==
    /\ WorkerRuns(w)
    /\ wk[w].pc = "release"
    /\ lock' = 0
    /\ wk' = [wk EXCEPT ![w].pc = "loop", ![w].k = @ + 1,
                        ![w].value = << >>, ![w].seen = FALSE, ![w].cur = 0]
    /\ UNCHANGED << files, task, shared, pbar, counted >>
    /\ UNCHANGED mainVars /\ UNCHANGED cliVars

\* ------------------------------------------- get_statistic_dict (main process)
\* Where the main process is inside get_statistic_dict: in the submission
\* loop, in the wait loop, or in pool.close(); pool.join().
Phase ==
    IF submitted < N THEN "submit" ELSE IF waited < N THEN "wait" ELSE "join"

MainRuns == mpc = "run" /\ intr = "none"

\* pool.apply_async(make_statistic, (in_path, shared_dict), callback=pbar_update)
Submit ==
    /\ MainRuns
    /\ Phase = "submit"
    /\ submitted' = submitted + 1
    /\ task' = [task EXCEPT ![submitted + 1] = "queued"]
    /\ UNCHANGED << files, mpc, waited, tle, wk, lock, shared, pbar, pool, intr,
                    ret, dict_v, counted >>
    /\ UNCHANGED cliVars

\* task.get(10) returns: the task has ended without an exception.
GetResult ==
    /\ MainRuns
    /\ Phase = "wait"
    /\ task[waited + 1] = "done"
    /\ waited' = waited + 1
    /\ UNCHANGED << files, mpc, submitted, task, tle, wk, lock, shared, pbar, pool,
                    intr, ret, dict_v, counted >>
    /\ UNCHANGED cliVars

\* task.get(10) raises the exception of the task: no except clause takes it,
\* and it leaves get_statistic_dict.
GetRaises ==
    /\ MainRuns
    /\ Phase = "wait"
    /\ task[waited + 1] = "failed"
    /\ ret' = "raise"
    /\ mpc' = "cli"
    /\ UNCHANGED << files, submitted, waited, task, tle, wk, lock, shared, pbar,
                    pool, intr, dict_v, counted >>
    /\ UNCHANGED cliVars

\* task.get(10) raises TimeoutError: print("TLE"); continue.  The task stays
\* in the pool.
GetTimeout ==
    /\ MainRuns
    /\ Phase = "wait"
    /\ task[waited + 1] \notin {"done", "failed"}
    /\ tle' = tle \cup {waited + 1}
    /\ waited' = waited + 1
    /\ UNCHANGED << files, mpc, submitted, task, wk, lock, shared, pbar, pool, intr,
                    ret, dict_v, counted >>
    /\ UNCHANGED cliVars

\* A join that does not wait for the tasks.
AllFinishedNoWait == TRUE

\* A join that leaves the lapsed tasks behind.
AllFinishedButLapsed == \A i \in (1..N) \ tle : task[i] \in {"done", "failed"}

\* pool.join() returns once the workers have run every task to its end.
AllFinished == \A i \in 1..N : task[i] \in {"done", "failed"}

\* pool.close(); pool.join(); pbar.close(); the copy into dict_v; return dict_v
Join ==
    /\ MainRuns
    /\ Phase = "join"
    /\ AllFinished
    /\ pool' = "closed"
    /\ dict_v' = shared
    /\ ret' = "table"
    /\ mpc' = "cli"
    /\ UNCHANGED << files, submitted, waited, task, tle, wk, lock, shared, pbar,
                    intr, counted >>
    /\ UNCHANGED cliVars

\* SIGINT reaches the main process (the workers ignore it, see setup).
Interrupt ==
    /\ MainRuns
    /\ intr' = Phase
    /\ UNCHANGED << files, mpc, submitted, waited, task, tle, wk, lock, shared,
                    pbar, pool, ret, dict_v, counted >>
    /\ UNCHANGED cliVars

\* No except clause for KeyboardInterrupt at all.
OnInterruptNoHandler(phase) == "raise"

\* The only except KeyboardInterrupt is around task.get(10).
OnInterrupt(phase) == IF phase = "wait" THEN "abort" ELSE "raise"

\* pool.close() in place of pool.terminate(): the abort waits for the tasks.
InterruptedGraceful ==
    /\ mpc = "run"
    /\ intr # "none"
    /\ OnInterrupt(intr) = "abort" => \A i \in 1..N : task[i] \in {"done", "failed"}
    /\ ret' = OnInterrupt(intr)
    /\ pool' = IF OnInterrupt(intr) = "abort" THEN "terminated" ELSE pool
    /\ mpc' = "cli"
    /\ UNCHANGED << files, submitted, waited, task, tle, wk, lock, shared, pbar,
                    intr, dict_v, counted >>
    /\ UNCHANGED cliVars

\* KeyboardInterrupt is raised where the main process is: in the wait loop,
\* pool.terminate(); pool.join(); return 1; elsewhere it leaves the function.
Interrupted ==
    /\ mpc = "run"
    /\ intr # "none"
    /\ ret' = OnInterrupt(intr)
    /\ pool' = IF OnInterrupt(intr) = "abort" THEN "terminated" ELSE pool
    /\ mpc' = "cli"
    /\ UNCHANGED << files, submitted, waited, task, tle, wk, lock, shared, pbar,
                    intr, dict_v, counted >>
    /\ UNCHANGED cliVars

\* ---------------------------------------------------------------------- cli
\* Every result drawn.
ShouldPlotAlways(result) == TRUE

\* len(statistic_result["DateTimeOriginal"]) > 0
ShouldPlot(result) == Len(result["DateTimeOriginal"]) > 0

\* statistic_result = get_statistic_dict(...) and the test of its result.  An
\* exception of get_statistic_dict leaves cli; the returned 1 cannot be
\* subscripted (TypeError).
CliCheck ==
    /\ mpc = "cli"
    /\ IF ret = "raise"
       THEN /\ outcome' = IF intr # "none" THEN "KeyboardInterrupt" ELSE "TaskError"
            /\ mpc' = "exit"
            /\ UNCHANGED plotIdx
       ELSE IF ret = "abort"
       THEN /\ outcome' = "TypeError"
            /\ mpc' = "exit"
            /\ UNCHANGED plotIdx
       ELSE IF ShouldPlot(dict_v)
       THEN /\ mpc' = "plot"
            /\ plotIdx' = 1
            /\ UNCHANGED outcome
       ELSE /\ outcome' = "ok"
            /\ mpc' = "exit"
            /\ UNCHANGED plotIdx
    /\ UNCHANGED << files, submitted, waited, task, tle, wk, lock, shared, pbar,
                    pool, intr, ret, dict_v, charts, counted >>

\* One turn of the loop of plot_statistic_dict.
PlotField ==
    /\ mpc = "plot"
    /\ LET k == STATISTIC_KEYS[plotIdx]
       IN  IF PlotRaises(k, dict_v[k])
           THEN /\ outcome' = "ValueError"
                /\ mpc' = "exit"
                /\ UNCHANGED << plotIdx, charts >>
           ELSE /\ charts' = Append(charts, Chart(k, dict_v[k]))
                /\ IF plotIdx = NKeys
                   THEN outcome' = "ok" /\ mpc' = "exit" /\ UNCHANGED plotIdx
                   ELSE plotIdx' = plotIdx + 1 /\ UNCHANGED << outcome, mpc >>
    /\ UNCHANGED << files, submitted, waited, task, tle, wk, lock, shared, pbar,
                    pool, intr, ret, dict_v, counted >>

\* ------------------------------------------------------------ specification
Next ==
    \/ \E w \in Workers :
         \/ Start(w) \/ Open(w) \/ Loop(w) \/ Acquire(w)
         \/ Check(w) \/ Read(w) \/ Write(w) \/ Release(w)
    \/ Submit \/ GetResult \/ GetRaises \/ GetTimeout \/ Join
    \/ Interrupt \/ Interrupted
    \/ CliCheck \/ PlotField

Spec == Init /\ [][Next]_vars

\* -------------------------------------------- plot_statistic_dict on its own
\* ExposureTime values written as fractions; as strings "1/2" < "1/30".
ExposureSamples ==
    { << "1", "/", "2", "0", "0" >>, << "1", "/", "6", "0" >>,
      << "1", "/", "1", "0", "0", "0" >>, << "1", "/", "2" >>,
      << "1", "/", "3", "0" >>, << "2", "/", "4" >> }

\* The tables of one field with up to n distinct values of S, in every
\* insertion order, with counts 1..MaxCount.
RECURSIVE ItemSeqs(_, _)
ItemSeqs(S, n) ==
    IF n = 0 THEN { << >> }
    ELSE LET prev == ItemSeqs(S, n - 1)
         IN  prev \cup
             { Append(t[1], [val |-> t[2], cnt |-> t[3]]) :
                 t \in { u \in prev \X S \X (1..MaxCount) :
                           Len(u[1]) = n - 1 /\ ~HasKey(u[1], u[2]) } }

\* A table whose other fields hold the one value of photo 1.
PlotTable(items) ==
    [ k \in KeySet |->
        IF k = "ExposureTime" THEN items
        ELSE << [val |-> Normalize(k, RawVal(k, 1)), cnt |-> 1] >> ]

\* cli just after get_statistic_dict has returned a table.
InitPlot ==
    /\ files = << >>
    /\ mpc = "cli"
    /\ submitted = 0
    /\ waited = 0
    /\ task = << >>
    /\ tle = {}
    /\ wk = [ w \in Workers |-> Idle ]
    /\ lock = 0
    /\ \E items \in ItemSeqs(ExposureSamples, MaxItems) \ { << >> } :
         /\ shared = PlotTable(items)
         /\ dict_v = PlotTable(items)
    /\ pbar = 0
    /\ pool = "closed"
    /\ intr = "none"
    /\ ret = "table"
    /\ plotIdx = 0
    /\ charts = << >>
    /\ outcome = "running"
    /\ counted = << >>

NextPlot == CliCheck \/ PlotField

SpecPlot == InitPlot /\ [][NextPlot]_vars

\* ================================================================== claims
FileIdx == 1..N

\* The file carries tags, and every tracked field among them.
Complete(f) ==
    files[f].kind = "exif" /\ \A k \in KeySet : files[f].tags[k].has

\* The file carries tags but lacks at least one tracked field.
Lacks(f) ==
    files[f].kind = "exif" /\ \E k \in KeySet : ~files[f].tags[k].has

\* The extraction of file f gets as far as producing a value for the i-th key.
Produces(f, i) ==
    files[f].kind = "exif" /\ \A j \in 1..i : files[f].tags[STATISTIC_KEYS[j]].has

ValueOf(f, k) == Normalize(k, files[f].tags[k].raw)

\* Every value of field k in sight: in a file, in the shared or the returned table.
AllValues(k) ==
    { ValueOf(f, k) : f \in { g \in FileIdx : files[g].tags[k].has } }
    \cup { shared[k][i].val : i \in 1..Len(shared[k]) }
    \cup { dict_v[k][i].val : i \in 1..Len(dict_v[k]) }

\* How many files of the list produce value v for the i-th key.
ExpectedCount(i, v) ==
    Cardinality({ f \in FileIdx :
                    Produces(f, i) /\ ValueOf(f, STATISTIC_KEYS[i]) = v })

\* How many complete files of the list carry value v for key k.
CompleteCount(k, v) ==
    Cardinality({ f \in FileIdx : Complete(f) /\ ValueOf(f, k) = v })

Returned == ret = "table"

\* The returned table holds, for every key and value, the count the list determines.
ReturnsExpected ==
    \A i \in 1..NKeys : \A v \in AllValues(STATISTIC_KEYS[i]) :
        Count(dict_v[STATISTIC_KEYS[i]], v) = ExpectedCount(i, v)

\* C1 (as claimed): a file that lacks one of the seven tracked fields is
\* counted in no field at all, and the returned table is the table of the
\* complete files alone.
C1_AllOrNothing ==
    /\ \A f \in FileIdx : Lacks(f) => counted[f] = {}
    /\ Returned =>
         \A k \in KeySet : \A v \in AllValues(k) :
             Count(dict_v[k], v) = CompleteCount(k, v)

\* C2: no lost updates.  At every moment the count of a (field, value) key
\* is the number of files whose increment for it has been written, and in a
\* run without lapse, failure or interrupt the returned count is the number
\* of files whose extraction produced that value for that field.
C2_NoLostUpdates ==
    /\ \A k \in KeySet : \A v \in AllValues(k) :
           Count(shared[k], v) =
               Cardinality({ f \in FileIdx :
                               k \in counted[f] /\ ValueOf(f, k) = v })
    /\ ( Returned /\ tle = {} /\ (\A f \in FileIdx : task[f] = "done") )
           => ReturnsExpected

\* Two files that produced the same value for a field have both been
\* counted under it, and the table has been returned.
C2_Witness ==
    /\ Returned /\ tle = {} /\ N = 2
    /\ \A f \in FileIdx : task[f] = "done"
    /\ \E k \in KeySet : \E i \in 1..Len(dict_v[k]) : dict_v[k][i].cnt = 2

\* C3: order independence.  On normal completion the returned table, as a
\* mapping from value to count, is determined by the file list alone,
\* whatever the order the tasks started, ran and ended in (lapsed waits
\* included).
C3_OrderIndependent == Returned => ReturnsExpected

\* The second file's worker inserted its Model before the first file's: the
\* tasks overtook each other, and the table has been returned.
C3_Witness ==
    /\ Returned /\ N = 2
    /\ Complete(1) /\ Complete(2)
    /\ ValueOf(1, "Model") # ValueOf(2, "Model")
    /\ dict_v["Model"][1].val = ValueOf(2, "Model")

\* C4 (as claimed): a file whose wait timed out is counted in no field of
\* the returned table, and the files submitted after it are counted.
C4_TimeoutExcluded ==
    Returned =>
        \A f \in tle :
            /\ counted[f] = {}
            /\ \A g \in FileIdx : (g > f /\ Complete(g)) => counted[g] = KeySet

\* C5 (as claimed): with no interrupt, get_statistic_dict ends by returning
\* a table, also when a file's extraction raised in its worker, and the
\* table holds the counts of the other files.
C5_FailureIsLocal ==
    (mpc # "run" /\ intr = "none") => (Returned /\ ReturnsExpected)

\* C6 (as claimed): an interrupt at any point of get_statistic_dict
\* (submission, wait, close/join) makes it return the abort sentinel.
C6_AbortAnywhere ==
    (mpc # "run" /\ intr # "none") => ret = "abort"

\* C6 (amended): an interrupt that reaches the main process in the wait loop
\* makes get_statistic_dict terminate the pool and return the abort
\* sentinel; one that reaches it in the submission loop or in close/join
\* leaves the function as KeyboardInterrupt; in neither case is a table
\* returned.
C6_AbortInWait ==
    /\ (mpc # "run" /\ intr = "wait") => (ret = "abort" /\ pool = "terminated")
    /\ (mpc # "run" /\ intr \in {"submit", "join"}) => ret = "raise"
    /\ intr # "none" => ~Returned

\* The sentinel has been returned while a worker was in the middle of a file.
C6_Witness ==
    /\ ret = "abort" /\ intr = "wait"
    /\ \E w \in Workers : wk[w].pc \notin {"idle", "open"}

Faults == { "TypeError", "ValueError", "TaskError", "KeyboardInterrupt" }

\* C7 (as claimed): after an interrupt cli draws no chart and ends without
\* a fault in its handling of what get_statistic_dict returned.
C7_CliAbortsCleanly ==
    (ret = "abort" /\ mpc = "exit") => (charts = << >> /\ outcome \notin Faults)

\* C8: render skip rule.  When get_statistic_dict returned a table whose
\* DateTimeOriginal field is empty, cli never enters plot_statistic_dict,
\* draws no chart and ends without error.
C8_RenderSkip ==
    (Returned /\ dict_v["DateTimeOriginal"] = << >>) =>
        /\ mpc # "plot"
        /\ charts = << >>
        /\ outcome \notin Faults
        /\ mpc = "exit" => outcome = "ok"

\* cli has ended on a table without dates, returned for a list that holds a
\* file with tags (but no DateTimeOriginal).
C8_Witness ==
    /\ Returned /\ mpc = "exit"
    /\ dict_v["DateTimeOriginal"] = << >>
    /\ \E f \in FileIdx : files[f].kind = "exif"

\* C9 (as claimed): on a returned table with a non-empty DateTimeOriginal
\* field, plot_statistic_dict runs to its end and draws one chart per tracked
\* field, in STATISTIC_KEYS order, each bar with the count of its value.
C9_ChartPerField ==
    (Returned /\ mpc = "exit" /\ dict_v["DateTimeOriginal"] # << >>) =>
        /\ outcome = "ok"
        /\ Len(charts) = NKeys
        /\ \A i \in 1..NKeys :
             /\ charts[i].field = STATISTIC_KEYS[i]
             /\ Len(charts[i].values) = Len(dict_v[STATISTIC_KEYS[i]])

\* The rational value of a string "num/den" (or "num").
NumOf(s) == IF Find(s, "/") = 0 THEN DigitsVal(s) ELSE DigitsVal(Before(s, "/"))

DenOf(s) == IF Find(s, "/") = 0 THEN 1 ELSE DigitsVal(After(s, "/"))

ValueLE(a, b) == NumOf(a) * DenOf(b) <= NumOf(b) * DenOf(a)

SameValue(a, b) == NumOf(a) * DenOf(b) = NumOf(b) * DenOf(a)

ExposurePos == CHOOSE i \in 1..NKeys : STATISTIC_KEYS[i] = "ExposureTime"

SpecExample ==
    { << "1", "/", "2", "0", "0" >>, << "1", "/", "6", "0" >>,
      << "1", "/", "1", "0", "0", "0" >> }

\* C10: ExposureTime ordering.  The chart of ExposureTime lists the values of
\* the table in ascending order of their rational value num/den, each label
\* naming the value of its key and each count that of its own key; for
\* "1/200", "1/60", "1/1000" the labels are 1/1000, 1/200, 1/60.
C10_ExposureOrder ==
    Len(charts) >= ExposurePos =>
        LET c == charts[ExposurePos]
            items == dict_v["ExposureTime"]
            n == Len(items)
        IN  /\ c.field = "ExposureTime"
            /\ Len(c.labels) = n /\ Len(c.values) = n
            /\ \E p \in Permutations(1..n) :
                 /\ \A i \in 1..n :
                      /\ SameValue(c.labels[i], items[p[i]].val)
                      /\ c.values[i] = items[p[i]].cnt
                 /\ \A i \in 1..n : \A j \in 1..n :
                      i < j => ValueLE(items[p[i]].val, items[p[j]].val)
            /\ { items[i].val : i \in 1..n } = SpecExample =>
                 c.labels = << << "1", "/", "1", "0", "0", "0" >>,
                               << "1", "/", "2", "0", "0" >>,
                               << "1", "/", "6", "0" >> >>

\* The chart has been drawn for a table that holds "1/2" before "1/30", the
\* order of the strings, with different counts.
C10_Witness ==
    /\ Len(charts) >= ExposurePos
    /\ dict_v["ExposureTime"] =
         << [val |-> << "1", "/", "2" >>, cnt |-> 2],
            [val |-> << "1", "/", "3", "0" >>, cnt |-> 1] >>

\* ------------------------------------------------ make_statistic's values
\* Raw DateTimeOriginal values: every string of up to MaxDateLen letters out
\* of ':', ' ' and '1', and the value of photo 1.
DateRaws == SeqsUpTo({ ":", " ", "1" }, MaxDateLen) \cup { RawVal("DateTimeOriginal", 1) }

\* Raw values of the other fields: every string of 1..MaxNameLen letters out
\* of NUL and 'L'.
NameRaws == SeqsUpTo({ "NUL", "L" }, MaxNameLen) \ { << >> }

\* A file with every tracked tag: DateTimeOriginal d, every other tag a.
FileOf(d, a) ==
    [ kind |-> "exif",
      tags |-> [ k \in KeySet |->
                   [ has |-> TRUE,
                     raw |-> IF k = "DateTimeOriginal" THEN d ELSE a ] ] ]

\* One file with any raw date, one file with any raw value of the other
\* fields, or two files that stop after LensModel with any two raw values.
NormLists ==
    { << FileOf(d, RawVal("Model", 1)) >> : d \in DateRaws }
    \cup { << FileOf(RawVal("DateTimeOriginal", 1), a) >> : a \in NameRaws }
    \cup { << [ FileOf(RawVal("DateTimeOriginal", 1), a) EXCEPT
                  !.tags = Without(@, "FNumber") ],
              [ FileOf(RawVal("DateTimeOriginal", 1), b) EXCEPT
                  !.tags = Without(@, "FNumber") ] >> :
             a \in NameRaws, b \in NameRaws }

InitNorm ==
    /\ files \in NormLists
    /\ mpc = "run"
    /\ submitted = 0
    /\ waited = 0
    /\ task = [ i \in 1..Len(files) |-> "new" ]
    /\ tle = {}
    /\ wk = [ w \in Workers |-> Idle ]
    /\ lock = 0
    /\ shared = EmptyTable
    /\ pbar = 0
    /\ pool = "open"
    /\ intr = "none"
    /\ ret = "none"
    /\ dict_v = EmptyTable
    /\ plotIdx = 0
    /\ charts = << >>
    /\ outcome = "running"
    /\ counted = [ i \in 1..Len(files) |-> {} ]

\* A run without timeout, failure or interrupt.
NextNorm ==
    \/ \E w \in Workers :
         \/ Start(w) \/ Open(w) \/ Loop(w) \/ Acquire(w)
         \/ Check(w) \/ Read(w) \/ Write(w) \/ Release(w)
    \/ Submit \/ GetResult \/ Join
    \/ CliCheck \/ PlotField

SpecNorm == InitNorm /\ [][NextNorm]_vars

InCritical == { "check", "read", "write", "release" }

\* The worker holds a computed value for the key it is at.
HasValue(w) == wk[w].pc \in InCritical \cup { "acquire" }

RawOf(f, k) == files[f].tags[k].raw

HasSpace(raw) == \E i \in 1..Len(raw) : raw[i] = " "

FirstSpace(raw) ==
    CHOOSE i \in 1..Len(raw) : raw[i] = " " /\ \A j \in 1..(i - 1) : raw[j] # " "

ColonsUpTo(raw, i) == Cardinality({ j \in 1..i : raw[j] = ":" })

\* v is the text of raw before its first space, the first two ':' turned
\* into '-' and every later ':' kept.
IsDateKeyOf(v, raw) ==
    /\ Len(v) = FirstSpace(raw) - 1
    /\ \A i \in 1..Len(v) :
         v[i] = IF raw[i] = ":" /\ ColonsUpTo(raw, i) <= 2 THEN "-" ELSE raw[i]

\* C11: CaptureDate normalization.  For a raw value with a space in it, the
\* value computed and the key counted for DateTimeOriginal is the text
\* before the first space with its first two ':' replaced by '-' and any
\* later ':' left as it is; "2023:05:01 12:30:00" is counted as "2023-05-01".
C11_DateKey ==
    /\ \A w \in Workers :
         ( HasValue(w) /\ wk[w].k = 1
           /\ HasSpace(RawOf(wk[w].f, "DateTimeOriginal")) )
         => IsDateKeyOf(wk[w].value, RawOf(wk[w].f, "DateTimeOriginal"))
    /\ \A f \in FileIdx :
         ( "DateTimeOriginal" \in counted[f]
           /\ HasSpace(RawOf(f, "DateTimeOriginal")) )
         => /\ Len(shared["DateTimeOriginal"]) = 1
            /\ IsDateKeyOf(shared["DateTimeOriginal"][1].val,
                           RawOf(f, "DateTimeOriginal"))
    /\ \A f \in FileIdx :
         ( "DateTimeOriginal" \in counted[f]
           /\ RawOf(f, "DateTimeOriginal") = RawVal("DateTimeOriginal", 1) )
         => shared["DateTimeOriginal"][1].val =
                << "2", "0", "2", "3", "-", "0", "5", "-", "0", "1" >>

\* A raw date with three ':' before its space has been counted: the third
\* ':' is still there.
C11_Witness ==
    /\ N = 1
    /\ RawOf(1, "DateTimeOriginal") = << ":", ":", ":", " ", "1" >>
    /\ "DateTimeOriginal" \in counted[1]
    /\ shared["DateTimeOriginal"] = << [val |-> << "-", "-", ":" >>, cnt |-> 1] >>

OtherKeys == KeySet \ { "DateTimeOriginal" }

RECURSIVE WithoutNuls(_)
WithoutNuls(s) ==
    IF s = << >> THEN << >>
    ELSE IF Head(s) = "NUL" THEN WithoutNuls(Tail(s))
    ELSE << Head(s) >> \o WithoutNuls(Tail(s))

\* C12 (as claimed): no key of a field other than DateTimeOriginal holds a
\* NUL, wherever it stood in the raw value, and two files whose raw values
\* differ only in NULs are counted under one key.
C12_NoNulAnywhere ==
    \A k \in OtherKeys :
        /\ \A i \in 1..Len(shared[k]) :
             \A j \in 1..Len(shared[k][i].val) : shared[k][i].val[j] # "NUL"
        /\ \A f \in FileIdx : \A g \in FileIdx :
             ( k \in counted[f] /\ k \in counted[g]
               /\ WithoutNuls(RawOf(f, k)) = WithoutNuls(RawOf(g, k)) )
             => Len(shared[k]) = 1

\* v is raw without the NULs at its two ends: raw is i NULs, v, j NULs, and
\* v neither starts nor ends with a NUL.
IsCoreOf(v, raw) ==
    /\ v # << >> => (v[1] # "NUL" /\ v[Len(v)] # "NUL")
    /\ \E i \in 0..Len(raw) :
         /\ i + Len(v) <= Len(raw)
         /\ \A j \in 1..Len(raw) :
              IF j <= i \/ j > i + Len(v) THEN raw[j] = "NUL" ELSE raw[j] = v[j - i]

\* C12 (amended): the key of a field other than DateTimeOriginal is the raw
\* value without its leading and trailing NULs (a NUL between other letters
\* stays), and two files whose raw values differ only in leading and
\* trailing NULs are counted under one key.
C12_NoNulAtEnds ==
    \A k \in OtherKeys :
        /\ \A w \in Workers :
             (HasValue(w) /\ STATISTIC_KEYS[wk[w].k] = k)
             => IsCoreOf(wk[w].value, RawOf(wk[w].f, k))
        /\ \A f \in FileIdx :
             k \in counted[f]
             => \E i \in 1..Len(shared[k]) : IsCoreOf(shared[k][i].val, RawOf(f, k))
        /\ \A f \in FileIdx : \A g \in FileIdx :
             ( f # g /\ k \in counted[f] /\ k \in counted[g]
               /\ \E a \in 1..(Len(RawOf(f, k)) + 1) : \E b \in 0..Len(RawOf(f, k)) :
                    /\ IsCoreOf(SubSeq(RawOf(f, k), a, b), RawOf(f, k))
                    /\ IsCoreOf(SubSeq(RawOf(f, k), a, b), RawOf(g, k)) )
             => ( Len(shared[k]) = 1 /\ shared[k][1].cnt = 2 )

\* Two files whose lens names differ only in a leading and a trailing NUL
\* have both been counted, under the one key without NUL.
C12_Witness ==
    /\ N = 2
    /\ RawOf(1, "LensModel") = << "NUL", "L" >>
    /\ RawOf(2, "LensModel") = << "L", "NUL" >>
    /\ shared["LensModel"] = << [val |-> << "L" >>, cnt |-> 2] >>

RECURSIVE Total(_)
Total(items) == IF items = << >> THEN 0 ELSE Head(items).cnt + Total(Tail(items))

Started == { f \in FileIdx : task[f] \in { "running", "done", "failed" } }

\* C13: frequency table invariant.  In every state every entry of the
\* shared table has a count of at least 1 and the counts of a field sum to
\* at most the number of files whose task has started; a step raises the
\* total of a field by at most 1, and only for a file not yet counted in
\* that field.
C13_TableInvariant ==
    /\ [](\A k \in KeySet :
            /\ \A i \in 1..Len(shared[k]) : shared[k][i].cnt >= 1
            /\ Total(shared[k]) <= Cardinality(Started))
    /\ [][\A k \in KeySet :
            \/ Total(shared'[k]) = Total(shared[k])
            \/ /\ Total(shared'[k]) = Total(shared[k]) + 1
               /\ \E f \in FileIdx :
                    /\ k \notin counted[f]
                    /\ counted' = [counted EXCEPT ![f] = @ \cup {k}]]_vars

\* Both files of a list have been counted under one Model: the total of the
\* field is the number of files.
C13_Witness ==
    /\ N = 2
    /\ Len(shared["Model"]) = 1
    /\ shared["Model"][1].cnt = 2
    /\ Cardinality(Started) = 2

NoExif(f) == files[f].kind = "noexif"

\* C14: a file without EXIF leaves the shared table alone.  Its worker never
\* gets past the test for None: it neither waits for nor holds the lock, the
\* file is counted in nothing, the step that ends its task changes neither
\* the table nor the lock, and the task ends as a success.
C14_NoExifFrame ==
    /\ [](\A f \in FileIdx :
            NoExif(f) =>
              /\ counted[f] = {}
              /\ task[f] # "failed"
              /\ \A w \in Workers : wk[w].f = f => wk[w].pc = "open")
    /\ [][\A w \in Workers :
            (wk[w].pc = "open" /\ NoExif(wk[w].f) /\ wk'[w] # wk[w]) =>
              /\ shared' = shared
              /\ lock' = lock
              /\ task'[wk[w].f] = "done"
              /\ wk'[w].pc = "idle"]_vars

\* The task of a file without EXIF has ended while the other worker holds
\* the lock for another file, whose DateTimeOriginal is in the table.
C14_Witness ==
    /\ \E f \in FileIdx : NoExif(f) /\ task[f] = "done"
    /\ lock # 0
    /\ shared["DateTimeOriginal"] # << >>

\* ------------------------------------------------------- fair scheduling
\* Lists that also hold a file whose extraction never returns.
LiveFileSpace ==
    { [kind |-> "hang", tags |-> NoTags],
      [kind |-> "corrupt", tags |-> NoTags],
      [kind |-> "noexif", tags |-> NoTags],
      [kind |-> "exif", tags |-> Photo(1)],
      [kind |-> "exif", tags |-> Without(Photo(1), "LensModel")] }

InitLive ==
    /\ files \in SeqsUpTo(LiveFileSpace, NumFiles)
    /\ mpc = "run"
    /\ submitted = 0
    /\ waited = 0
    /\ task = [ i \in 1..Len(files) |-> "new" ]
    /\ tle = {}
    /\ wk = [ w \in Workers |-> Idle ]
    /\ lock = 0
    /\ shared = EmptyTable
    /\ pbar = 0
    /\ pool = "open"
    /\ intr = "none"
    /\ ret = "none"
    /\ dict_v = EmptyTable
    /\ plotIdx = 0
    /\ charts = << >>
    /\ outcome = "running"
    /\ counted = [ i \in 1..Len(files) |-> {} ]

\* The next step of worker process w.
WorkerStep(w) ==
    \/ Start(w) \/ Open(w) \/ Loop(w) \/ Acquire(w)
    \/ Check(w) \/ Read(w) \/ Write(w) \/ Release(w)

\* The next step of the main process.  task.get(10) returns or raises
\* within its timeout; the SIGINT itself is the environment's.
MainStep ==
    \/ Submit \/ GetResult \/ GetRaises \/ GetTimeout \/ Join
    \/ Interrupted \/ CliCheck \/ PlotField

\* Every process that can take a step is scheduled.
Fairness ==
    /\ \A w \in Workers : WF_vars(WorkerStep(w))
    /\ WF_vars(MainStep)

FairSpec == InitLive /\ [][Next]_vars /\ Fairness

\* C15 (as claimed): once every task has been waited for (its result taken
\* or its wait timed out), get_statistic_dict returns a table, unless it is
\* interrupted: it does not wait for a lapsed task in pool.close();
\* pool.join().
C15_LapsedNeverBlocks ==
    (mpc = "run" /\ Phase = "join") ~> (Returned \/ intr # "none")

\* C16: completion barrier.  When the table is returned every task has
\* ended, lapsed ones included, every worker is idle and the lock is free;
\* the returned table is the shared table, and the shared table does not
\* change afterwards.
C16_CompletionBarrier ==
    /\ [](Returned =>
            /\ \A f \in FileIdx : task[f] \in { "done", "failed" }
            /\ \A w \in Workers : wk[w].pc = "idle"
            /\ lock = 0
            /\ dict_v = shared)
    /\ [][Returned => (shared' = shared /\ counted' = counted)]_vars

\* A table has been returned that holds every field of a file whose wait
\* had timed out.
C16_Witness ==
    /\ Returned
    /\ \E f \in tle : counted[f] = KeySet

\* C17: mutual exclusion.  A worker between its membership test and the end
\* of its with block holds the lock, so at most one worker is there; the
\* shared table changes only in the write of the lock's holder, and what the
\* holder saw in its test (and read for += 1) is still what the table holds
\* when it writes.
C17_MutualExclusion ==
    /\ [](/\ \A w \in Workers : wk[w].pc \in InCritical <=> lock = w
          /\ Cardinality({ w \in Workers : wk[w].pc \in InCritical }) <= 1)
    /\ [][shared' # shared =>
            \E w \in Workers :
                /\ lock = w /\ wk[w].pc = "write" /\ wk'[w].pc = "release"
                /\ lock' = w
                /\ LET items == shared[STATISTIC_KEYS[wk[w].k]]
                   IN  /\ wk[w].seen = HasKey(items, wk[w].value)
                       /\ wk[w].seen => wk[w].cur = GetItem(items, wk[w].value)]_vars

\* A worker is about to create an entry it has found missing while the
\* other waits for the lock with the same value of the same key.
C17_Witness ==
    \E w \in Workers : \E u \in Workers :
        /\ wk[w].pc = "write" /\ ~wk[w].seen /\ lock = w
        /\ wk[u].pc = "acquire"
        /\ wk[u].k = wk[w].k /\ wk[u].value = wk[w].value

IsPrefix(S) == \E n \in 0..NKeys : S = { STATISTIC_KEYS[i] : i \in 1..n }

\* C19: prefix invariant.  The fields a file has been counted in are a
\* prefix of STATISTIC_KEYS, so the totals of the fields do not increase
\* along STATISTIC_KEYS, and an empty DateTimeOriginal table means that
\* every field's table is empty.
C19_PrefixInvariant ==
    /\ \A f \in FileIdx : IsPrefix(counted[f])
    /\ \A i \in 1..(NKeys - 1) :
         Total(shared[STATISTIC_KEYS[i]]) >= Total(shared[STATISTIC_KEYS[i + 1]])
    /\ shared["DateTimeOriginal"] = << >> => shared = EmptyTable

\* The task of a file without LensModel has ended, counted in the two
\* fields before it, beside a file counted in all seven.
C19_Witness ==
    /\ N = 2
    /\ \E f \in FileIdx : \E g \in FileIdx :
         /\ task[f] = "done" /\ ~files[f].tags["LensModel"].has
         /\ counted[f] = { "DateTimeOriginal", "Model" }
         /\ counted[g] = KeySet

\* C18: forced teardown on interrupt.  Once a SIGINT has reached the main
\* process in the wait loop, get_statistic_dict returns the abort outcome,
\* whatever the tasks are doing (one may never finish, one may hold the
\* lock); from the interrupt on it waits on no further task, the pool is
\* terminated at the return, and afterwards no worker moves and the shared
\* table does not change.
C18_ForcedTeardown ==
    /\ (intr = "wait") ~> (ret = "abort")
    /\ [][intr = "wait" => (waited' = waited /\ tle' = tle)]_vars
    /\ [](ret = "abort" => pool = "terminated")
    /\ [][ret = "abort" =>
            (shared' = shared /\ counted' = counted /\ wk' = wk /\ lock' = lock)]_vars

\* The abort outcome has been returned with one worker in a file that never
\* finishes and the other holding the lock.
C18_Witness ==
    /\ ret = "abort"
    /\ lock # 0
    /\ \E w \in Workers : wk[w].pc = "open" /\ files[wk[w].f].kind = "hang"

\* Every extraction of the list returns: no file hangs or raises.
ListFinishes == \A f \in FileIdx : files[f].kind \notin { "hang", "corrupt" }

\* C20: deadlock freedom and termination.  Under fair scheduling, for a list
\* whose extractions all return and without interrupt, every task completes
\* and get_statistic_dict returns a table; a worker that requests the lock
\* gets it and a worker that holds it releases it (while the run lasts), and
\* no worker holds the lock outside its with block.
C20_Termination ==
    /\ ListFinishes => <>(Returned \/ intr # "none")
    /\ ListFinishes => <>((\A f \in FileIdx : task[f] = "done") \/ intr # "none")
    /\ \A w \in Workers : (wk[w].pc = "acquire") ~> (lock = w \/ mpc # "run")
    /\ \A w \in Workers : (lock = w) ~> (lock # w \/ mpc # "run")
    /\ [](\A w \in Workers : wk[w].pc \notin InCritical => lock # w)

\* A table has been returned for two files that were both counted in every
\* field, under the same keys.
C20_Witness ==
    /\ Returned /\ N = 2 /\ intr = "none"
    /\ \A f \in FileIdx : counted[f] = KeySet /\ task[f] = "done"
    /\ \A k \in KeySet : Len(dict_v[k]) = 1 /\ dict_v[k][1].cnt = 2

====
